---- MODULE Spec2Model ----
(***************************************************************************)
(* Reconnecting streaming clients of btgsolutions_dataservices.websocket:  *)
(* MarketDataFeed (worker process + parent), MarketDataWebSocketClient,    *)
(* HFNWebSocketClient and WebSocketClient.                                 *)
(*                                                                         *)
(* One client instance is modelled; `kind` says which class it is.  The    *)
(* websocket-client library is the environment: it reports a successful    *)
(* handshake (on_open), a failed handshake (on_error, then on_close), a    *)
(* dropped transport (on_close) and, after WebSocketApp.close(), the       *)
(* teardown of the read loop (on_close).  A callback that raises is caught *)
(* by the library, which then calls on_error and goes on.                  *)
(***************************************************************************)
EXTENDS Integers, Sequences, FiniteSets, TLC

\* ---------------------------------------------------------------- constants

MAX_WS_RECONNECT_RETRIES == 5

\* ------------------------------------------------------------------- bounds

\* closure events (drops and failed handshakes) the transport produces
MaxClosures == 7
\* closure events in the command/frame specification
MaxDrops == 3
\* run() calls made by the application
MaxRuns == 2
\* close() calls made by the application after one run()
MaxCloses == 2
\* commands submitted by the application
MaxCmds == 3
\* frames sent by the server
MaxFrames == 3
\* seconds the clock advances
MaxTime == 4
\* lifetime, in seconds, the authenticate endpoint gives a token
TokenLife == 2
\* requests the authenticate endpoint gets
MaxAuthCalls == 4

\* -------------------------------------------------------------------- state

VARIABLES
    kind,          \* class of the client instance
    reconnect,     \* reconnect policy (constructor / run() argument)
    wsSet,         \* self.ws exists (set by run() of the three thread clients)
    thr,           \* the live WebSocketApp.run_forever thread
    retries,       \* self.__nro_reconnect_retries
    waitLoops,     \* connect-wait loops spinning ("while True: if connected: break")
    drainLoops,    \* MarketDataFeed worker: command-drain loops running
    epoch,         \* successful opens so far, saturating at 2
    process,       \* MarketDataFeed: self.process is not None
    alive,         \* MarketDataFeed: self.process.is_alive()
    orphans,       \* MarketDataFeed: alive workers no longer referenced by self.process
    running,       \* MarketDataFeed: self.running
    consumers,     \* MarketDataFeed: local consumer loops (run_on_new_thread) alive
    cmdQ,          \* client_message_queue
    held,          \* commands a drain loop took off the queue and has not sent yet
    written,       \* commands written to the transport, in order
    lost,          \* commands whose ws.send raised: dropped by the drain loop
    offline,       \* commands submitted while the transport was not connected
    nsub,          \* commands submitted so far
    srvQ,          \* server_message_queue
    delivered,     \* frames passed to the user on_message handler, in order
    nframes,       \* frames received from the transport so far
    budget,        \* closure events the transport may still produce
    lastEvent,     \* the operation or callback that ran last
    err,           \* exception raised to the caller by the last API call
    nclose,        \* close() calls since the last run()
    closedOpen,    \* close() was called on the open client since the last run()
    runs,          \* run() calls so far
    attempts,      \* reconnect attempts started since the last successful open
    onCloseCalls,  \* invocations of the user on_close hook, modulo 2
    instruments,   \* self.instruments, the list given to the constructor
    wire,          \* thread clients: commands written on the current connection
    asked,         \* thread clients: lists the application subscribed with subscribe()
    spawnArg,      \* spawn_thread of the application's run() call
    spawn,         \* the live WebSocketApp hands frames to a new thread each
    handlerThreads,\* frames whose handler thread was started and has not run yet
    arrived,       \* MarketDataFeed: frames the worker's on_message was called with
    blocked,       \* MarketDataFeed: consumer loops inside a handler that never returns
    failed,        \* ids of the frames on which the user on_message handler raised
    errorCalls,    \* ids of the frames the user on_error hook was called for, in order
    now,           \* int(time.time())
    token,         \* Authenticator._token of the instance
    hdr,           \* the token in the header of the live WebSocketApp
    issued,        \* tokens the authenticate endpoint has issued
    authCalls,     \* authenticate requests made so far
    server,        \* how the authenticate endpoint answers a request now
    got,           \* what the application's last read of Authenticator.token returned
    args,          \* arguments of the constructor call
    made,          \* outcome of the constructor call
    logLevel,      \* MarketDataFeed: self.log_level
    dataType,      \* MarketDataFeed: self.data_type
    stamps,        \* the timestamp field of each frame received, by frame id
    head,          \* worker: head_message_count and head_avg_latency
    tail,          \* consumer loop: latency_message_count and latency_average
    samplerRaised, \* ids of the frames on which the consumer loop's sampler raised
    closePc,       \* MarketDataFeed.close: the statement a running call is at
    inTurn,        \* consumer loops that read self.running as True and have not looped yet
    clients,       \* two instances in one process: the attributes of each
    payload        \* MarketDataFeed.subscribe calls, by command number: arguments, object queued

supVars  == <<kind, reconnect, wsSet, thr, retries, waitLoops, drainLoops, epoch>>
lifeVars == <<process, alive, orphans, running, consumers>>
chanVars == <<cmdQ, held, written, lost, offline, nsub>>
inVars   == <<srvQ, delivered, nframes>>
histVars == <<budget, lastEvent, err, nclose, closedOpen, runs, attempts, onCloseCalls>>
subVars  == <<instruments, wire, asked>>
modeVars == <<spawnArg, spawn, handlerThreads>>
frameVars == <<arrived, blocked, failed, errorCalls>>
authVars == <<now, token, hdr, issued, authCalls, server, got>>
ctorVars == <<args, made>>
sampVars == <<logLevel, dataType, stamps, head, tail, samplerRaised>>
stepVars == <<closePc, inTurn>>
moreVars == <<sampVars, stepVars, clients, payload>>
newVars  == <<subVars, modeVars, frameVars, authVars, ctorVars, moreVars>>
vars     == <<supVars, lifeVars, chanVars, inVars, histVars, newVars>>

MDF  == "MarketDataFeed"
MDWS == "MarketDataWebSocketClient"
HFN  == "HFNWebSocketClient"
WSC  == "WebSocketClient"
Kinds == {MDF, MDWS, HFN, WSC}

\* run() of MarketDataWebSocketClient and HFNWebSocketClient and the worker's
\* run_forever_new_thread spin until the socket is connected; WebSocketClient.run
\* returns at once.
HasWaitLoop(k) == k \in {MDF, MDWS, HFN}

\* log_level of MarketDataFeed: the latency sampler runs at DEBUG only.
DEBUG == "DEBUG"
INFO == "INFO"

\* The latency sampler's running count and average before the first sample.
NoSamples == [count |-> 0, avg |-> 0]

\* ------------------------------------------------------------ Authenticator

\* A token is known by its serial number and its exp claim.
NoToken == [id |-> 0, exp |-> 0]

\* Answers of the authenticate endpoint: status code and body (a JSON object
\* with an AccessToken, a JSON object without one, or not JSON at all).
AuthResponses == [status : {200, 401}, body : {"token", "no_token", "not_json"}]
OkResponse == [status |-> 200, body |-> "token"]

\* Authenticator.get_new_token at time t, n tokens issued so far: one POST;
\* json.loads of the body in both branches; 200 with a token returns it,
\* 200 without raises Exception, any other status raises BadResponse.
get_new_token(resp, t, n) ==
    IF resp.body = "not_json"
      THEN [raised |-> "JSONDecodeError", token |-> NoToken]
    ELSE IF resp.status = 200
      THEN IF resp.body = "token"
             THEN [raised |-> "none", token |-> [id |-> n + 1, exp |-> t + TokenLife]]
             ELSE [raised |-> "Exception", token |-> NoToken]
    ELSE [raised |-> "BadResponse", token |-> NoToken]

\* The token property: decode the cached token's exp claim (no signature or
\* expiry verification), fetch a new token when int(time.time()) >= exp.
\* calls: authenticate requests made; cached: self._token afterwards.
Authenticator_token_late_refresh(tok, t, resp, n) ==
    IF t > tok.exp
      THEN LET g == get_new_token(resp, t, n) IN
           [calls |-> 1, raised |-> g.raised, returned |-> g.token,
            cached |-> IF g.raised = "none" THEN g.token ELSE tok]
      ELSE [calls |-> 0, raised |-> "none", returned |-> tok, cached |-> tok]

Authenticator_token(tok, t, resp, n) ==
    IF t >= tok.exp
      THEN LET g == get_new_token(resp, t, n) IN
           [calls |-> 1, raised |-> g.raised, returned |-> g.token,
            cached |-> IF g.raised = "none" THEN g.token ELSE tok]
      ELSE [calls |-> 0, raised |-> "none", returned |-> tok, cached |-> tok]

\* ------------------------------------------------------- endpoint resolution

REALTIME == "realtime"
DELAYED == "delayed"
THROTTLE == "throttle"
B3 == "b3"
BMV == "bmv"
SECURITIES == "securities"
TRADES == "trades"
PROCESSEDTRADES == "processed-trades"
BOOKS == "books"
INDICES == "indices"
CANDLES1S == "candles-1S"
CANDLES1M == "candles-1M"
STOPLOSS == "stoploss"
ALL == "all"
STOCKS == "stocks"
OPTIONS == "options"
DERIVATIVES == "derivatives"
None == "None"

VALID_STREAM_TYPES == {REALTIME, DELAYED, THROTTLE}
VALID_EXCHANGES == {B3, BMV}
VALID_MARKET_DATA_TYPES ==
    {SECURITIES, TRADES, PROCESSEDTRADES, BOOKS, INDICES, CANDLES1S, CANDLES1M, STOPLOSS}
VALID_MARKET_DATA_SUBTYPES == {ALL, STOCKS, OPTIONS, DERIVATIVES}

\* The routing table.  The nested dictionary exchange -> data type -> stream
\* type -> subtype -> url is written as one function on the four keys: the
\* chained subscript finds an entry exactly when all four keys are there.
market_data_socket_urls ==
    <<B3, TRADES, REALTIME, STOCKS>> :>
        "wss://dataservices.btgpactualsolutions.com/stream/v2/marketdata/trade/stocks" @@
    <<B3, TRADES, REALTIME, OPTIONS>> :>
        "wss://dataservices.btgpactualsolutions.com/stream/v2/marketdata/trade/options" @@
    <<B3, TRADES, REALTIME, DERIVATIVES>> :>
        "wss://dataservices.btgpactualsolutions.com/stream/v2/marketdata/trade/derivatives" @@
    <<B3, TRADES, DELAYED, STOCKS>> :>
        "wss://dataservices.btgpactualsolutions.com/stream/v2/marketdata/trade/stocks/delayed" @@
    <<B3, TRADES, DELAYED, OPTIONS>> :>
        "wss://dataservices.btgpactualsolutions.com/stream/v2/marketdata/trade/options/delayed" @@
    <<B3, TRADES, DELAYED, DERIVATIVES>> :>
        "wss://dataservices.btgpactualsolutions.com/stream/v2/marketdata/trade/derivatives/delayed" @@
    <<B3, TRADES, THROTTLE, STOCKS>> :>
        "wss://dataservices.btgpactualsolutions.com/stream/v2/marketdata/throttle/trade/stocks" @@
    <<B3, TRADES, THROTTLE, OPTIONS>> :>
        "wss://dataservices.btgpactualsolutions.com/stream/v2/marketdata/throttle/trade/options" @@
    <<B3, TRADES, THROTTLE, DERIVATIVES>> :>
        "wss://dataservices.btgpactualsolutions.com/stream/v2/marketdata/throttle/trade/derivatives" @@
    <<B3, PROCESSEDTRADES, REALTIME, STOCKS>> :>
        "wss://dataservices.btgpactualsolutions.com/stream/v2/marketdata/processed/trade/stocks" @@
    <<B3, PROCESSEDTRADES, REALTIME, OPTIONS>> :>
        "wss://dataservices.btgpactualsolutions.com/stream/v2/marketdata/processed/trade/options" @@
    <<B3, PROCESSEDTRADES, REALTIME, DERIVATIVES>> :>
        "wss://dataservices.btgpactualsolutions.com/stream/v2/marketdata/processed/trade/derivatives" @@
    <<B3, BOOKS, REALTIME, STOCKS>> :>
        "wss://dataservices.btgpactualsolutions.com/stream/v2/marketdata/book/stocks" @@
    <<B3, BOOKS, REALTIME, OPTIONS>> :>
        "wss://dataservices.btgpactualsolutions.com/stream/v2/marketdata/book/options" @@
    <<B3, BOOKS, REALTIME, DERIVATIVES>> :>
        "wss://dataservices.btgpactualsolutions.com/stream/v2/marketdata/book/derivatives" @@
    <<B3, BOOKS, THROTTLE, STOCKS>> :>
        "wss://dataservices.btgpactualsolutions.com/stream/v2/marketdata/throttle/book/stocks" @@
    <<B3, BOOKS, THROTTLE, OPTIONS>> :>
        "wss://dataservices.btgpactualsolutions.com/stream/v2/marketdata/throttle/book/options" @@
    <<B3, BOOKS, THROTTLE, DERIVATIVES>> :>
        "wss://dataservices.btgpactualsolutions.com/stream/v2/marketdata/throttle/book/derivatives" @@
    <<B3, SECURITIES, REALTIME, STOCKS>> :>
        "wss://dataservices.btgpactualsolutions.com/stream/v1/marketdata/sec_list/stocks" @@
    <<B3, SECURITIES, REALTIME, OPTIONS>> :>
        "wss://dataservices.btgpactualsolutions.com/stream/v1/marketdata/sec_list/options" @@
    <<B3, SECURITIES, REALTIME, DERIVATIVES>> :>
        "wss://dataservices.btgpactualsolutions.com/stream/v1/marketdata/sec_list/derivatives" @@
    <<B3, INDICES, REALTIME, ALL>> :>
        "wss://dataservices.btgpactualsolutions.com/stream/v2/marketdata/indices" @@
    <<B3, INDICES, DELAYED, ALL>> :>
        "wss://dataservices.btgpactualsolutions.com/stream/v2/marketdata/indices/delayed" @@
    <<B3, CANDLES1S, REALTIME, STOCKS>> :>
        "wss://dataservices.btgpactualsolutions.com/stream/v1/marketdata/candles/1S/stocks" @@
    <<B3, CANDLES1S, REALTIME, DERIVATIVES>> :>
        "wss://dataservices.btgpactualsolutions.com/stream/v1/marketdata/candles/1S/derivatives" @@
    <<B3, CANDLES1M, REALTIME, STOCKS>> :>
        "wss://dataservices.btgpactualsolutions.com/stream/v1/marketdata/candles/1M/stocks" @@
    <<B3, CANDLES1M, REALTIME, DERIVATIVES>> :>
        "wss://dataservices.btgpactualsolutions.com/stream/v1/marketdata/candles/1M/derivatives" @@
    <<B3, STOPLOSS, REALTIME, STOCKS>> :>
        "wss://dataservices.btgpactualsolutions.com/stream/v1/marketdata/stoploss/stocks" @@
    <<B3, STOPLOSS, REALTIME, DERIVATIVES>> :>
        "wss://dataservices.btgpactualsolutions.com/stream/v1/marketdata/stoploss/derivatives" @@
    <<BMV, TRADES, REALTIME, ALL>> :>
        "wss://dataservices.btgpactualsolutions.com/stream/v1/marketdata/bmv/trades"

Dimensions == {"stream_type", "exchange", "data_type", "data_subtype"}

\* Authenticator(api_key) in a constructor: the first token is fetched; the
\* exception it raises, if any.
Authenticator_init(resp) == get_new_token(resp, 0, 0).raised

\* Outcome of a constructor call: the exception it raised and the parameters
\* the message of that exception names, or the url of the new instance, and
\* whether the authenticate endpoint was called.
Pending ==
    [done |-> FALSE, err |-> "none", names |-> {}, url |-> "", authCalled |-> FALSE]
Failed(exc, dims, called) ==
    [done |-> TRUE, err |-> exc, names |-> dims, url |-> "", authCalled |-> called]
Constructed(u) ==
    [done |-> TRUE, err |-> "none", names |-> {}, url |-> u, authCalled |-> TRUE]

\* MarketDataWebSocketClient.__init__: Authenticator(api_key) first, then the
\* default subtype ("is" compares identities: it is true of an equal string
\* only when that string is the interned one), the checks of each parameter
\* and the lookup.
MarketDataWebSocketClient_init_default_over_given(a, resp) ==
    LET sub == IF a.exchange = B3 /\ a.data_type # INDICES THEN STOCKS ELSE ALL
        key == <<a.exchange, a.data_type, a.stream_type, sub>>
    IN  IF Authenticator_init(resp) # "none" THEN Failed(Authenticator_init(resp), {}, TRUE)
        ELSE IF key \in DOMAIN market_data_socket_urls
          THEN Constructed(market_data_socket_urls[key])
        ELSE Failed("WSTypeError", Dimensions, TRUE)

MarketDataWebSocketClient_init(a, resp) ==
    LET exchange_is_B3 == a.exchange = B3 /\ a.interned
        data_type_is_INDICES == a.data_type = INDICES /\ a.interned
        sub == IF a.data_subtype = None
                 THEN IF exchange_is_B3 /\ ~data_type_is_INDICES THEN STOCKS ELSE ALL
                 ELSE a.data_subtype
        key == <<a.exchange, a.data_type, a.stream_type, sub>>
    IN  IF Authenticator_init(resp) # "none" THEN Failed(Authenticator_init(resp), {}, TRUE)
        ELSE IF a.stream_type \notin VALID_STREAM_TYPES
          THEN Failed("FeedError", {"stream_type"}, TRUE)
        ELSE IF a.exchange \notin VALID_EXCHANGES
          THEN Failed("FeedError", {"exchange"}, TRUE)
        ELSE IF a.data_type \notin VALID_MARKET_DATA_TYPES
          THEN Failed("FeedError", {"data_type"}, TRUE)
        ELSE IF sub \notin VALID_MARKET_DATA_SUBTYPES
          THEN Failed("FeedError", {"data_subtype"}, TRUE)
        ELSE IF key \in DOMAIN market_data_socket_urls
          THEN Constructed(market_data_socket_urls[key])
        ELSE Failed("WSTypeError", Dimensions, TRUE)

\* MarketDataFeed.__init__ with the default feed: the lookup with the
\* parameters as given (a bare except turns any failure into Exception, whose
\* message lists all four parameters), then Authenticator(api_key).
MarketDataFeed_init(a, resp) ==
    LET key == <<a.exchange, a.data_type, a.stream_type, a.data_subtype>>
    IN  IF key \notin DOMAIN market_data_socket_urls
          THEN Failed("Exception", Dimensions, FALSE)
        ELSE IF Authenticator_init(resp) # "none" THEN Failed(Authenticator_init(resp), {}, TRUE)
        ELSE Constructed(market_data_socket_urls[key])

\* HFNWebSocketClient.__init__: Authenticator(api_key) first, then the checks
\* of stream_type and country and the lookup in hfn_socket_urls.
BR == "brazil"
MX == "mexico"
CL == "chile"
VALID_COUNTRIES == {BR, MX, CL}

hfn_socket_urls ==
    <<BR, REALTIME>> :> "wss://dataservices.btgpactualsolutions.com/stream/v2/hfn/brazil" @@
    <<CL, REALTIME>> :> "wss://dataservices.btgpactualsolutions.com/stream/v2/hfn/chile"

HFNWebSocketClient_init(a, resp) ==
    LET key == <<a.country, a.stream_type>>
    IN  IF Authenticator_init(resp) # "none" THEN Failed(Authenticator_init(resp), {}, TRUE)
        ELSE IF a.stream_type \notin VALID_STREAM_TYPES
          THEN Failed("FeedError", {"stream_type"}, TRUE)
        ELSE IF a.country \notin VALID_COUNTRIES
          THEN Failed("FeedError", {"country"}, TRUE)
        ELSE IF key \in DOMAIN hfn_socket_urls
          THEN Constructed(hfn_socket_urls[key])
        ELSE Failed("WSTypeError", {"stream_type", "country"}, TRUE)

\* ------------------------------------------------------- callbacks (pure part)

\* The retry counter after the open callback.  The user hook runs first (in
\* MarketDataWebSocketClient and WebSocketClient followed by the subscribe of
\* the constructor's instruments) and the reset is the last statement, so it
\* is skipped when one of them raises.
MarketDataFeed_on_open(r, raises) == IF raises THEN r ELSE 0
MarketDataWebSocketClient_on_open(r, raises) == IF raises THEN r ELSE 0
HFNWebSocketClient_on_open(r, raises) == IF raises THEN r ELSE 0
WebSocketClient_on_open(r, raises) == IF raises THEN r ELSE 0

on_open(k, r, raises) ==
    CASE k = MDF  -> MarketDataFeed_on_open(r, raises)
      [] k = MDWS -> MarketDataWebSocketClient_on_open(r, raises)
      [] k = HFN  -> HFNWebSocketClient_on_open(r, raises)
      [] k = WSC  -> WebSocketClient_on_open(r, raises)

\* What the open callback writes to the transport after the user hook has
\* returned: MarketDataWebSocketClient and WebSocketClient subscribe
\* self.instruments when the list is not empty; the other two write nothing.
ClientCommand(list) == [by |-> "client", params |-> list]
CallerCommand(list) == [by |-> "caller", params |-> list]

on_open_subscribes_empty_list(instr) == <<ClientCommand(instr)>>

MarketDataWebSocketClient_on_open_sends(instr) ==
    IF instr # <<>> THEN <<ClientCommand(instr)>> ELSE <<>>

WebSocketClient_on_open_sends(instr) ==
    IF instr # <<>> THEN <<ClientCommand(instr)>> ELSE <<>>

on_open_sends(k, instr, raises) ==
    IF raises THEN <<>>
    ELSE CASE k = MDWS -> MarketDataWebSocketClient_on_open_sends(instr)
           [] k = WSC  -> WebSocketClient_on_open_sends(instr)
           [] OTHER    -> <<>>

\* The close callback: user hook, then (reconnect enabled) stop at the cap or
\* count the attempt and connect again.
on_close_cap_off_by_one(r, rec, raises) ==
    IF raises \/ ~rec THEN [retries |-> r, again |-> FALSE]
    ELSE IF r = MAX_WS_RECONNECT_RETRIES + 1 THEN [retries |-> r, again |-> FALSE]
    ELSE [retries |-> r + 1, again |-> TRUE]

on_close_no_return_at_cap(r, rec, raises) ==
    IF raises \/ ~rec THEN [retries |-> r, again |-> FALSE]
    ELSE IF r = MAX_WS_RECONNECT_RETRIES THEN [retries |-> r, again |-> TRUE]
    ELSE [retries |-> r + 1, again |-> TRUE]

MarketDataFeed_on_close(r, rec, raises) ==
    IF raises \/ ~rec THEN [retries |-> r, again |-> FALSE]
    ELSE IF r = MAX_WS_RECONNECT_RETRIES THEN [retries |-> r, again |-> FALSE]
    ELSE [retries |-> r + 1, again |-> TRUE]

MarketDataWebSocketClient_on_close(r, rec, raises) ==
    IF raises \/ ~rec THEN [retries |-> r, again |-> FALSE]
    ELSE IF r = MAX_WS_RECONNECT_RETRIES THEN [retries |-> r, again |-> FALSE]
    ELSE [retries |-> r + 1, again |-> TRUE]

on_close_ignores_reconnect(r, rec, raises) ==
    IF raises THEN [retries |-> r, again |-> FALSE]
    ELSE IF r = MAX_WS_RECONNECT_RETRIES THEN [retries |-> r, again |-> FALSE]
    ELSE [retries |-> r + 1, again |-> TRUE]

HFNWebSocketClient_on_close(r, rec, raises) ==
    IF raises \/ ~rec THEN [retries |-> r, again |-> FALSE]
    ELSE IF r = MAX_WS_RECONNECT_RETRIES THEN [retries |-> r, again |-> FALSE]
    ELSE [retries |-> r + 1, again |-> TRUE]

WebSocketClient_on_close(r, rec, raises) ==
    IF raises \/ ~rec THEN [retries |-> r, again |-> FALSE]
    ELSE IF r = MAX_WS_RECONNECT_RETRIES THEN [retries |-> r, again |-> FALSE]
    ELSE [retries |-> r + 1, again |-> TRUE]

on_close(k, r, rec, raises) ==
    CASE k = MDF  -> MarketDataFeed_on_close(r, rec, raises)
      [] k = MDWS -> MarketDataWebSocketClient_on_close(r, rec, raises)
      [] k = HFN  -> HFNWebSocketClient_on_close(r, rec, raises)
      [] k = WSC  -> WebSocketClient_on_close(r, rec, raises)

\* The close callback as the run_forever thread runs it: a new attempt starts a
\* new run_forever thread and, where run() has one, one more connect-wait loop
\* (the callback does not return before the socket is connected).
\* The attempt of the MarketDataFeed worker is run_forever on the WebSocketApp
\* built at worker start, header included.  The attempt of a thread client is
\* self.run(on_open, on_message, on_error, on_close, reconnect): a new
\* WebSocketApp with the token the Authenticator has now (when fetching it
\* raises, the library swallows the exception and no attempt is made) and, in
\* MarketDataWebSocketClient, spawn_thread at its default.
Attempt ==
    IF kind = MDF
      THEN /\ thr' = "connecting"
           /\ UNCHANGED <<spawnArg, spawn, authVars>>
      ELSE LET a == Authenticator_token(token, now, server, issued) IN
             /\ thr' = IF a.raised = "none" THEN "connecting" ELSE "done"
             /\ token' = a.cached
             /\ hdr' = IF a.raised = "none" THEN a.returned ELSE hdr
             /\ issued' = IF a.raised = "none" THEN issued + a.calls ELSE issued
             /\ authCalls' = authCalls + a.calls
             /\ spawn' = IF kind = MDWS /\ a.raised = "none" THEN TRUE ELSE spawn
             /\ UNCHANGED <<spawnArg, now, server, got>>

Closure(raises) ==
    LET o == on_close(kind, retries, reconnect, raises) IN
    /\ retries' = o.retries
    /\ IF o.again THEN Attempt
                  ELSE thr' = "done" /\ UNCHANGED <<spawnArg, spawn, authVars>>
    /\ waitLoops' = IF thr' = "connecting" /\ HasWaitLoop(kind) THEN waitLoops + 1 ELSE waitLoops
    /\ attempts' = IF thr' = "connecting" THEN attempts + 1 ELSE attempts
    /\ onCloseCalls' = (onCloseCalls + 1) % 2

\* --------------------------------------------------------------------- Init

InitCommon ==
    /\ kind \in Kinds
    /\ reconnect \in BOOLEAN
    /\ wsSet = FALSE
    /\ thr = "none"
    /\ retries = 0
    /\ waitLoops = 0
    /\ drainLoops = 0
    /\ epoch = 0
    /\ process = FALSE
    /\ alive = FALSE
    /\ orphans = 0
    /\ running = FALSE
    /\ consumers = 0
    /\ cmdQ = <<>>
    /\ held = {}
    /\ written = <<>>
    /\ lost = {}
    /\ offline = {}
    /\ nsub = 0
    /\ srvQ = <<>>
    /\ delivered = <<>>
    /\ nframes = 0
    /\ lastEvent = "init"
    /\ err = "none"
    /\ nclose = 0
    /\ closedOpen = FALSE
    /\ runs = 0
    /\ attempts = 0
    /\ onCloseCalls = 0
    /\ wire = <<>>
    /\ asked = {}
    /\ spawnArg = TRUE
    /\ spawn = TRUE
    /\ handlerThreads = {}
    /\ arrived = <<>>
    /\ blocked = 0
    /\ failed = {}
    /\ errorCalls = <<>>
    /\ now = 0
    /\ hdr = NoToken
    /\ got = NoToken
    /\ stamps = <<>>
    /\ head = NoSamples
    /\ tail = NoSamples
    /\ samplerRaised = {}
    /\ closePc = "idle"
    /\ inTurn = 0
    /\ payload = <<>>

\* The instance exists: its constructor call is not part of the behaviour; the
\* Authenticator it made has fetched the first token.
NoArgs == [cls |-> "none"]
InitAuthenticated ==
    /\ args = NoArgs
    /\ made = Constructed("")
    /\ server = OkResponse
    /\ token = [id |-> 1, exp |-> TokenLife]
    /\ issued = 1
    /\ authCalls = 1

\* The log level is one at which the latency sampler is off.
InitConstructed ==
    /\ InitAuthenticated
    /\ logLevel = INFO
    /\ dataType = TRADES
    /\ clients = <<>>

Init == InitCommon /\ InitConstructed /\ instruments = <<>> /\ budget = MaxClosures

\* ------------------------------------------------------- application calls

\* MarketDataWebSocketClient.run / HFNWebSocketClient.run / WebSocketClient.run,
\* called while no WebSocketApp of the instance is live.  The header of the new
\* WebSocketApp is evaluated first: when the token property raises, run()
\* raises and self.ws is not assigned.  Only MarketDataWebSocketClient.run has
\* spawn_thread; the other two call the handler on the read loop.
Run ==
    /\ kind # MDF
    /\ thr \in {"none", "done"}
    /\ runs < MaxRuns
    /\ runs' = runs + 1
    /\ lastEvent' = "run"
    /\ \E s \in (IF kind = MDWS THEN BOOLEAN ELSE {FALSE}) :
         LET a == Authenticator_token(token, now, server, issued) IN
         /\ token' = a.cached
         /\ authCalls' = authCalls + a.calls
         /\ err' = a.raised
         /\ IF a.raised = "none"
              THEN /\ wsSet' = TRUE
                   /\ thr' = "connecting"
                   /\ waitLoops' = IF HasWaitLoop(kind) THEN waitLoops + 1 ELSE waitLoops
                   /\ nclose' = 0
                   /\ closedOpen' = FALSE
                   /\ hdr' = a.returned
                   /\ issued' = issued + a.calls
                   /\ spawnArg' = s
                   /\ spawn' = s
              ELSE UNCHANGED <<wsSet, thr, waitLoops, nclose, closedOpen, hdr,
                               issued, spawnArg, spawn>>
    /\ UNCHANGED <<kind, reconnect, retries, drainLoops, epoch, attempts, now,
                   server, got,
                   onCloseCalls, budget, lifeVars, chanVars, inVars,
                   subVars, handlerThreads, frameVars, ctorVars, moreVars>>

\* MarketDataFeed.run: a new worker process (its copy of the instance has a
\* retry counter of 0, one run_forever thread and the main thread's wait loop)
\* and a new local consumer thread.  The worker builds its WebSocketApp once,
\* with the token its copy of the Authenticator has then (a token it fetches
\* stays in the worker; when fetching raises the worker ends at once).  self.process is overwritten: a worker that
\* is still alive stays alive and is no longer referenced.
FeedRun ==
    /\ kind = MDF
    /\ runs < MaxRuns
    /\ process' = TRUE
    /\ orphans' = IF alive THEN orphans + 1 ELSE orphans
    /\ running' = TRUE
    /\ consumers' = consumers + 1
    /\ LET a == Authenticator_token(token, now, server, issued) IN
         /\ alive' = (a.raised = "none")
         /\ thr' = IF a.raised = "none" THEN "connecting" ELSE "done"
         /\ waitLoops' = IF a.raised = "none" THEN 1 ELSE 0
         /\ hdr' = IF a.raised = "none" THEN a.returned ELSE NoToken
         /\ issued' = IF a.raised = "none" THEN issued + a.calls ELSE issued
         /\ authCalls' = authCalls + a.calls
    /\ retries' = 0
    /\ drainLoops' = 0
    /\ held' = {}
    /\ attempts' = 0
    /\ runs' = runs + 1
    /\ nclose' = 0
    /\ closedOpen' = FALSE
    /\ err' = "none"
    /\ lastEvent' = "run"
    /\ UNCHANGED <<kind, reconnect, wsSet, epoch, onCloseCalls, budget, now, token,
                   server, got,
                   cmdQ, written, lost, offline, nsub, inVars,
                   subVars, modeVars, frameVars, ctorVars, moreVars>>

\* close() of the three thread clients before any run(): self.ws does not exist.
CloseBeforeRun ==
    /\ kind # MDF
    /\ ~wsSet
    /\ err' = "AttributeError"
    /\ lastEvent' = "close"
    /\ UNCHANGED <<supVars, lifeVars, chanVars, inVars,
                   budget, nclose, closedOpen, runs, attempts, onCloseCalls,
                   newVars>>

\* close() of the three thread clients: self.ws.close() stops the read loop of
\* the current WebSocketApp and closes its socket; the run_forever thread then
\* tears down and calls on_close.  On an app that is already torn down it does
\* nothing.
Close ==
    /\ kind # MDF
    /\ wsSet
    /\ nclose < MaxCloses
    /\ thr' = IF thr \in {"connecting", "open"} THEN "teardown" ELSE thr
    /\ nclose' = nclose + 1
    /\ closedOpen' = (closedOpen \/ thr = "open")
    /\ err' = "none"
    /\ lastEvent' = "close"
    /\ UNCHANGED <<kind, reconnect, wsSet, retries, waitLoops, drainLoops, epoch,
                   lifeVars, chanVars, inVars, budget, runs, attempts, onCloseCalls,
                   newVars>>

\* MarketDataFeed.close: clears the running flag, then terminates and joins the
\* worker self.process refers to, when it is alive.
FeedClose ==
    /\ kind = MDF
    /\ nclose < MaxCloses
    /\ running' = FALSE
    /\ IF process /\ alive
         THEN /\ alive' = FALSE
              /\ thr' = "killed"
              /\ waitLoops' = 0
              /\ drainLoops' = 0
              /\ held' = {}
         ELSE UNCHANGED <<alive, thr, waitLoops, drainLoops, held>>
    /\ nclose' = IF process THEN nclose + 1 ELSE nclose
    /\ closedOpen' = (closedOpen \/ thr = "open")
    /\ err' = "none"
    /\ lastEvent' = "close"
    /\ UNCHANGED <<kind, reconnect, wsSet, retries, epoch, process, orphans,
                   consumers, cmdQ, written, lost, offline, nsub, inVars,
                   budget, runs, attempts, onCloseCalls,
                   newVars>>

\* MarketDataFeed.close statement by statement, for what other threads do in
\* between.  First "self.running = False".
close_terminates_first ==
    /\ kind = MDF
    /\ closePc = "idle"
    /\ nclose < MaxCloses
    /\ alive' = FALSE
    /\ thr' = IF process /\ alive THEN "killed" ELSE thr
    /\ closePc' = "terminate"
    /\ lastEvent' = "close_flag"
    /\ UNCHANGED <<kind, reconnect, wsSet, retries, waitLoops, drainLoops, epoch,
                   process, orphans, running, consumers, chanVars, inVars, budget, err,
                   nclose, closedOpen, runs, attempts, onCloseCalls, subVars, modeVars,
                   frameVars, authVars, ctorVars, sampVars, inTurn, clients, payload>>

FeedCloseFlag ==
    /\ kind = MDF
    /\ closePc = "idle"
    /\ nclose < MaxCloses
    /\ running' = FALSE
    /\ closePc' = "terminate"
    /\ lastEvent' = "close_flag"
    /\ UNCHANGED <<supVars, process, alive, orphans, consumers, chanVars, inVars,
                   budget, err, nclose, closedOpen, runs, attempts, onCloseCalls,
                   subVars, modeVars, frameVars, authVars, ctorVars, sampVars,
                   inTurn, clients, payload>>

\* Then "if self.process and self.process.is_alive(): terminate(); join()",
\* and close() returns.
FeedCloseTerminate ==
    /\ kind = MDF
    /\ closePc = "terminate"
    /\ IF process /\ alive
         THEN /\ alive' = FALSE
              /\ thr' = "killed"
              /\ waitLoops' = 0
              /\ drainLoops' = 0
              /\ held' = {}
         ELSE UNCHANGED <<alive, thr, waitLoops, drainLoops, held>>
    /\ nclose' = IF process THEN nclose + 1 ELSE nclose
    /\ closedOpen' = (closedOpen \/ thr = "open")
    /\ err' = "none"
    /\ closePc' = "idle"
    /\ lastEvent' = "close"
    /\ UNCHANGED <<kind, reconnect, wsSet, retries, epoch, process, orphans, running,
                   consumers, cmdQ, written, lost, offline, nsub, inVars,
                   budget, runs, attempts, onCloseCalls, subVars, modeVars,
                   frameVars, authVars, ctorVars, sampVars, inTurn, clients, payload>>

\* ---------------------------------------------------- transport callbacks

\* Successful handshake: the socket is connected and the open callback runs.
OnOpen ==
    /\ thr = "connecting"
    /\ \E raises \in BOOLEAN :
         /\ retries' = on_open(kind, retries, raises)
         /\ wire' = on_open_sends(kind, instruments, raises)
    /\ thr' = "open"
    /\ epoch' = IF epoch < 2 THEN epoch + 1 ELSE epoch
    /\ attempts' = 0
    /\ lastEvent' = "open"
    /\ UNCHANGED <<kind, reconnect, wsSet, waitLoops, drainLoops, lifeVars,
                   chanVars, inVars, budget, err, nclose, closedOpen, runs, onCloseCalls,
                   instruments, asked, modeVars, frameVars, authVars, ctorVars, moreVars>>

\* Failed handshake: on_error, then teardown and the close callback.
OnHandshakeFail ==
    /\ thr = "connecting"
    /\ budget > 0
    /\ budget' = budget - 1
    /\ \E raises \in BOOLEAN : Closure(raises)
    /\ lastEvent' = "fail"
    /\ UNCHANGED <<kind, reconnect, wsSet, drainLoops, epoch, lifeVars,
                   chanVars, inVars, err, nclose, closedOpen, runs,
                   subVars, handlerThreads, frameVars, ctorVars, moreVars>>

\* The open transport drops: teardown and the close callback.
OnDrop ==
    /\ thr = "open"
    /\ budget > 0
    /\ budget' = budget - 1
    /\ \E raises \in BOOLEAN : Closure(raises)
    /\ lastEvent' = "drop"
    /\ UNCHANGED <<kind, reconnect, wsSet, drainLoops, epoch, lifeVars,
                   chanVars, inVars, err, nclose, closedOpen, runs,
                   subVars, handlerThreads, frameVars, ctorVars, moreVars>>

\* The read loop of an app closed by close() ends: teardown and the close
\* callback, the same one as for a drop.
OnTeardown ==
    /\ thr = "teardown"
    /\ \E raises \in BOOLEAN : Closure(raises)
    /\ lastEvent' = "teardown"
    /\ UNCHANGED <<kind, reconnect, wsSet, drainLoops, epoch, lifeVars,
                   chanVars, inVars, budget, err, nclose, closedOpen, runs,
                   subVars, handlerThreads, frameVars, ctorVars, moreVars>>

\* One connect-wait loop sees the socket connected and ends; in the
\* MarketDataFeed worker the thread goes on into its command-drain loop.
WaitLoopExit ==
    /\ thr = "open"
    /\ waitLoops > 0
    /\ waitLoops' = waitLoops - 1
    /\ drainLoops' = IF kind = MDF THEN drainLoops + 1 ELSE drainLoops
    /\ lastEvent' = "connected"
    /\ UNCHANGED <<kind, reconnect, wsSet, thr, retries, epoch, lifeVars,
                   chanVars, inVars, budget, err, nclose, closedOpen, runs, attempts,
                   onCloseCalls,
                   newVars>>

\* A local consumer loop of MarketDataFeed.run reads self.running = False and ends.
ConsumerExit ==
    /\ consumers > inTurn
    /\ ~running
    /\ consumers' = consumers - 1
    /\ lastEvent' = "consumer_exit"
    /\ UNCHANGED <<supVars, process, alive, orphans, running, chanVars, inVars,
                   budget, err, nclose, closedOpen, runs, attempts, onCloseCalls,
                   newVars>>

\* ------------------------------------------------------------ constructors

\* Arguments of a constructor call: the supported values of each parameter,
\* one unsupported value of each, and the omitted data_subtype.  interned says
\* whether the strings passed are the interned ones.
ArgSpace ==
    [cls : {MDF, MDWS},
     exchange : VALID_EXCHANGES \cup {"nasdaq"},
     data_type : VALID_MARKET_DATA_TYPES \cup {"instrument_status"},
     stream_type : VALID_STREAM_TYPES \cup {"processed"},
     data_subtype : VALID_MARKET_DATA_SUBTYPES \cup {"crypto", None},
     interned : BOOLEAN]

\* The constructor call runs; the Authenticator it makes, if it gets that far,
\* sends the first authenticate request.
Construct(outcome) ==
    /\ ~made.done
    /\ made' = outcome
    /\ err' = outcome.err
    /\ authCalls' = IF outcome.authCalled THEN 1 ELSE 0
    /\ issued' = IF outcome.err = "none" THEN 1 ELSE 0
    /\ token' = IF outcome.err = "none" THEN get_new_token(server, now, 0).token ELSE NoToken
    /\ lastEvent' = "constructor"
    /\ UNCHANGED <<supVars, lifeVars, chanVars, inVars, budget, nclose,
                   closedOpen, runs, attempts, onCloseCalls, subVars, modeVars,
                   frameVars, now, hdr, server, got, args, moreVars>>

ConstructClient ==
    /\ args.cls = MDWS
    /\ Construct(MarketDataWebSocketClient_init(args, server))

ConstructFeed ==
    /\ args.cls = MDF
    /\ Construct(MarketDataFeed_init(args, server))

\* Arguments of an HFNWebSocketClient constructor call: the supported values
\* of each parameter and one unsupported value of each.
NewsArgSpace ==
    [cls : {HFN},
     stream_type : VALID_STREAM_TYPES \cup {"processed"},
     country : VALID_COUNTRIES \cup {"peru"}]

ConstructNews ==
    /\ args.cls = HFN
    /\ Construct(HFNWebSocketClient_init(args, server))

\* --------------------------------------------------------------- the clock

\* One second passes.
Tick ==
    /\ now < MaxTime
    /\ now' = now + 1
    /\ lastEvent' = "tick"
    /\ UNCHANGED <<supVars, lifeVars, chanVars, inVars, budget, err, nclose,
                   closedOpen, runs, attempts, onCloseCalls, subVars, modeVars,
                   frameVars, token, hdr, issued, authCalls, server, got, ctorVars, moreVars>>

\* The authenticate endpoint starts answering differently.
ServerChange ==
    /\ \E resp \in AuthResponses \ {server} : server' = resp
    /\ lastEvent' = "server"
    /\ UNCHANGED <<supVars, lifeVars, chanVars, inVars, budget, err, nclose,
                   closedOpen, runs, attempts, onCloseCalls, subVars, modeVars,
                   frameVars, now, token, hdr, issued, authCalls, got, ctorVars, moreVars>>

\* The application reads authenticator.token.
TokenAccess ==
    /\ authCalls < MaxAuthCalls
    /\ LET a == Authenticator_token(token, now, server, issued) IN
         /\ token' = a.cached
         /\ got' = a.returned
         /\ err' = a.raised
         /\ issued' = IF a.raised = "none" THEN issued + a.calls ELSE issued
         /\ authCalls' = authCalls + a.calls
    /\ lastEvent' = "token"
    /\ UNCHANGED <<supVars, lifeVars, chanVars, inVars, budget, nclose,
                   closedOpen, runs, attempts, onCloseCalls, subVars, modeVars,
                   frameVars, now, hdr, server, ctorVars, moreVars>>

\* ------------------------------------------- MarketDataFeed command channel

\* MarketDataFeed._send (behind subscribe, unsubscribe, subscribed_to,
\* available_to_subscribe and get_last_event): the command goes on the
\* client-to-server queue, whatever the state of the transport.  Commands are
\* numbered in submission order.
Submit ==
    /\ kind = MDF
    /\ nsub < MaxCmds
    /\ nsub' = nsub + 1
    /\ cmdQ' = Append(cmdQ, nsub + 1)
    /\ offline' = IF thr # "open" THEN offline \cup {nsub + 1} ELSE offline
    /\ lastEvent' = "send"
    /\ UNCHANGED <<supVars, lifeVars, held, written, lost, inVars,
                   budget, err, nclose, closedOpen, runs, attempts, onCloseCalls,
                   newVars>>

\* Arguments of MarketDataFeed.subscribe: the instruments, as a list or as a
\* tuple, and the book depth n, None when not given (0 is a given value).
InstrumentArgs == [py : {"list", "tuple"}, items : {<<"PETR4">>, <<"PETR4", "VALE3">>}]
NoDepth == [given |-> FALSE, value |-> 0]
DepthArgs == {NoDepth} \cup [given : {TRUE}, value : {0, 5}]

\* The message subscribe() builds.  params is the dict {"tickers": ..., "n": n}
\* (shape "dict") or the instruments themselves (shape "list", which has no n).
MarketDataFeed_subscribe_truthy_n(dt, list_instruments, n) ==
    IF dt = BOOKS /\ n.given /\ n.value # 0
      THEN [action |-> "subscribe",
            params |-> [shape |-> "dict", tickers |-> list_instruments, n |-> n.value]]
      ELSE [action |-> "subscribe",
            params |-> [shape |-> "list", tickers |-> list_instruments, n |-> 0]]

MarketDataFeed_subscribe(dt, list_instruments, n) ==
    IF dt = BOOKS /\ n.given
      THEN [action |-> "subscribe",
            params |-> [shape |-> "dict", tickers |-> list_instruments, n |-> n.value]]
      ELSE [action |-> "subscribe",
            params |-> [shape |-> "list", tickers |-> list_instruments, n |-> 0]]

\* What _send puts on the queue for a message that is not a str:
\* json.loads(json.dumps(message)).  A list or tuple is written as a JSON
\* array, which is read back as a list; strings and integers come back as
\* they were.
MarketDataFeed_send(message) ==
    [message EXCEPT !.params.tickers.py = "list"]

\* MarketDataFeed.subscribe(list_instruments, n): one message, one _send, one
\* put on the client-to-server queue, whatever the state of the transport.
FeedSubscribe ==
    /\ kind = MDF
    /\ nsub < MaxCmds
    /\ nsub' = nsub + 1
    /\ cmdQ' = Append(cmdQ, nsub + 1)
    /\ offline' = IF thr # "open" THEN offline \cup {nsub + 1} ELSE offline
    /\ \E list_instruments \in InstrumentArgs, n \in DepthArgs :
         payload' = payload @@ (nsub + 1 :>
             [call |-> [list_instruments |-> list_instruments, n |-> n],
              queued |-> MarketDataFeed_send(
                            MarketDataFeed_subscribe(dataType, list_instruments, n))])
    /\ lastEvent' = "feed_subscribe"
    /\ UNCHANGED <<supVars, lifeVars, held, written, lost, inVars,
                   budget, err, nclose, closedOpen, runs, attempts, onCloseCalls,
                   subVars, modeVars, frameVars, authVars, ctorVars, sampVars,
                   stepVars, clients>>

\* A drain loop that holds no command finds the queue non-empty and takes its
\* head ("if not client_message_queue.empty(): msg = client_message_queue.get()").
DrainGet ==
    /\ kind = MDF
    /\ Cardinality(held) < drainLoops
    /\ cmdQ # <<>>
    /\ held' = held \cup {Head(cmdQ)}
    /\ cmdQ' = Tail(cmdQ)
    /\ lastEvent' = "drain_get"
    /\ UNCHANGED <<supVars, lifeVars, written, lost, offline, nsub, inVars,
                   budget, err, nclose, closedOpen, runs, attempts, onCloseCalls,
                   newVars>>

\* ws.send(json.dumps(msg)) of a drain loop: written when the socket is
\* connected; otherwise WebSocketApp.send raises, the loop's "except Exception"
\* swallows it and the command is gone.
ws_send(connected, w, l, c) ==
    IF connected THEN [written |-> Append(w, c), lost |-> l]
    ELSE [written |-> w, lost |-> l \cup {c}]

DrainSend ==
    /\ kind = MDF
    /\ \E c \in held :
         LET o == ws_send(thr = "open", written, lost, c) IN
         /\ held' = held \ {c}
         /\ written' = o.written
         /\ lost' = o.lost
    /\ lastEvent' = "drain_send"
    /\ UNCHANGED <<supVars, lifeVars, cmdQ, offline, nsub, inVars,
                   budget, err, nclose, closedOpen, runs, attempts, onCloseCalls,
                   newVars>>

\* --------------------------------------------- thread clients: commands

InstrumentLists == {<<>>, <<"PETR4">>}
SubscribeLists == {<<"VALE3">>, <<"PETR4", "VALE3">>}

\* __send of the three thread clients: "return self.ws.send(data)", at once
\* and on the calling thread.  WebSocketApp.send writes on a connected socket
\* and raises otherwise; before run() there is no self.ws.  Nothing is kept
\* for later.
send_ignores_connection(hasWs, connected, w, c) ==
    [wire |-> Append(w, c), raised |-> "none"]

send(hasWs, connected, w, c) ==
    IF ~hasWs THEN [wire |-> w, raised |-> "AttributeError"]
    ELSE IF connected THEN [wire |-> Append(w, c), raised |-> "none"]
    ELSE [wire |-> w, raised |-> "WebSocketConnectionClosedException"]

\* subscribe(list) of MarketDataWebSocketClient and WebSocketClient.
Subscribe ==
    /\ kind \in {MDWS, WSC}
    /\ nsub < MaxCmds
    /\ nsub' = nsub + 1
    /\ \E list \in SubscribeLists :
         LET o == send(wsSet, thr = "open", wire, CallerCommand(list)) IN
         /\ wire' = o.wire
         /\ err' = o.raised
         /\ asked' = IF o.raised = "none" THEN asked \cup {list} ELSE asked
    /\ lastEvent' = "subscribe"
    /\ UNCHANGED <<supVars, lifeVars, cmdQ, held, written, lost, offline, inVars,
                   budget, nclose, closedOpen, runs, attempts, onCloseCalls,
                   instruments, modeVars, frameVars, authVars, ctorVars, moreVars>>

\* get_latest_news() of HFNWebSocketClient and WebSocketClient: the command
\* {'action': 'latest_news'}, which has no params.
NewsCommand == CallerCommand(<<>>)

GetLatestNews ==
    /\ kind \in {HFN, WSC}
    /\ nsub < MaxCmds
    /\ nsub' = nsub + 1
    /\ LET o == send(wsSet, thr = "open", wire, NewsCommand) IN
         /\ wire' = o.wire
         /\ err' = o.raised
    /\ lastEvent' = "latest_news"
    /\ UNCHANGED <<supVars, lifeVars, cmdQ, held, written, lost, offline, inVars,
                   budget, nclose, closedOpen, runs, attempts, onCloseCalls,
                   instruments, asked, modeVars, frameVars, authVars, ctorVars, moreVars>>

\* ----------------------------------------- thread clients: inbound frames

\* intermediary_on_error: the user on_error hook is called with the exception.
intermediary_on_error(calls, id) == Append(calls, id)

\* A frame arrives on the open transport of a thread client; the data is
\* passed on as received.  A WebSocketApp built with spawn_thread starts a
\* thread that will call the handler (new_thread_intermediary_on_message);
\* otherwise the handler is called on the read loop (intermediary_on_message)
\* and, when it raises, the library calls on_error and reads on.
ClientOnMessage ==
    /\ kind # MDF
    /\ thr = "open"
    /\ nframes < MaxFrames
    /\ nframes' = nframes + 1
    /\ LET frame == [id |-> nframes + 1, conn |-> epoch] IN
       IF spawn
         THEN /\ handlerThreads' = handlerThreads \cup {frame}
              /\ UNCHANGED <<delivered, failed, errorCalls>>
         ELSE /\ delivered' = Append(delivered, frame)
              /\ \E raises \in BOOLEAN :
                   /\ failed' = IF raises THEN failed \cup {frame.id} ELSE failed
                   /\ errorCalls' = IF raises THEN intermediary_on_error(errorCalls, frame.id)
                                              ELSE errorCalls
              /\ UNCHANGED handlerThreads
    /\ lastEvent' = "frame"
    /\ UNCHANGED <<supVars, lifeVars, chanVars, srvQ, budget, err, nclose, closedOpen,
                   runs, attempts, onCloseCalls, subVars, spawnArg, spawn,
                   arrived, blocked, authVars, ctorVars, moreVars>>

\* A thread started for a frame runs the handler; an exception ends that
\* thread and reaches nobody.
HandlerThread ==
    /\ \E frame \in handlerThreads :
         /\ handlerThreads' = handlerThreads \ {frame}
         /\ delivered' = Append(delivered, frame)
         /\ \E raises \in BOOLEAN :
              failed' = IF raises THEN failed \cup {frame.id} ELSE failed
    /\ lastEvent' = "handler"
    /\ UNCHANGED <<supVars, lifeVars, chanVars, srvQ, nframes, budget, err, nclose,
                   closedOpen, runs, attempts, onCloseCalls, subVars, spawnArg, spawn,
                   arrived, blocked, errorCalls, authVars, ctorVars, moreVars>>

\* ------------------------------------------ MarketDataFeed inbound dispatch

\* The worker's on_message: json.loads, then server_message_queue.put.  An
\* undecodable frame raises in json.loads and is not queued.
worker_on_message_prepend(q, frame, decodable) ==
    IF decodable THEN <<frame>> \o q ELSE q

worker_on_message_bounded_queue(q, frame, decodable) ==
    IF decodable /\ Len(q) < 1 THEN Append(q, frame) ELSE q

worker_on_message_queues_undecodable(q, frame, decodable) ==
    Append(q, frame)

worker_on_message(q, frame, decodable) ==
    IF decodable THEN Append(q, frame) ELSE q

\* The timestamp field of a frame, where the sampler looks for it (tTime at top
\* level; for books "datetime" of the first bid entry, else of the first offer
\* entry): absent; an entry without the "datetime" key; a value that is not in
\* the format "%Y-%m-%dT%H:%M:%S.%fZ"; or a well-formed time, given by the
\* latency in milliseconds the sample comes to.
Latencies == {10, 30}
Absent == [field |-> "absent", ms |-> 0]
WellFormed == [field : {"well_formed"}, ms : Latencies]
Timestamps ==
    {Absent, [field |-> "no_datetime", ms |-> 0], [field |-> "malformed", ms |-> 0]}
        \cup WellFormed

\* The latency sample of one frame, the same statements in the worker's
\* on_message and in the consumer loop: no sample when the field is absent;
\* bid[0]["datetime"] raises KeyError; datetime.strptime raises ValueError on a
\* malformed value; otherwise the count goes up and the cumulative average
\* moves by (latency - average) / count (whole milliseconds here).
latency_sample(dt, ts, s) ==
    IF ts.field = "absent" \/ (ts.field = "no_datetime" /\ dt # BOOKS)
      THEN [raised |-> "none", s |-> s]
    ELSE IF ts.field = "no_datetime"
      THEN [raised |-> "KeyError", s |-> s]
    ELSE IF ts.field = "malformed"
      THEN [raised |-> "ValueError", s |-> s]
    ELSE LET n == s.count + 1 IN
         [raised |-> "none",
          s |-> [count |-> n, avg |-> s.avg + ((ts.ms - s.avg) \div n)]]

\* The worker's on_error, which the library calls with the exception of a
\* callback: it logs and calls the user on_error hook.
worker_on_error(calls, id) == Append(calls, id)

\* A frame arrives on the open transport.  Frames are numbered in arrival order
\* and carry the connection they arrived on (1: the first, 2: a later one).
\* After the put, at DEBUG level, the callback takes the latency sample of the
\* frame; an exception of json.loads or of the sampler is caught by the
\* library, which calls on_error and reads on.  At another level the timestamp
\* is not looked at.
OnMessage ==
    /\ kind = MDF
    /\ thr = "open"
    /\ nframes < MaxFrames
    /\ nframes' = nframes + 1
    /\ \E decodable \in BOOLEAN, ts \in Timestamps :
         LET sampled == decodable /\ logLevel = DEBUG
             o == latency_sample(dataType, ts, head)
         IN
         /\ (logLevel # DEBUG \/ ~decodable) => ts = Absent
         /\ srvQ' = worker_on_message(srvQ, [id |-> nframes + 1, conn |-> epoch], decodable)
         /\ arrived' = Append(arrived, [id |-> nframes + 1, conn |-> epoch, dec |-> decodable])
         /\ stamps' = Append(stamps, ts)
         /\ head' = IF sampled THEN o.s ELSE head
         /\ errorCalls' = IF ~decodable \/ (sampled /\ o.raised # "none")
                            THEN worker_on_error(errorCalls, nframes + 1)
                            ELSE errorCalls
    /\ lastEvent' = "frame"
    /\ UNCHANGED <<supVars, lifeVars, chanVars, delivered,
                   budget, err, nclose, closedOpen, runs, attempts, onCloseCalls,
                   subVars, modeVars, blocked, failed, authVars, ctorVars,
                   logLevel, dataType, tail, samplerRaised, stepVars, clients, payload>>

\* The body of the consumer loop (run_on_new_thread) with a non-empty queue:
\* get, then the user on_message handler and, at DEBUG level when the handler
\* has returned, the latency sample of the frame.  Nothing in the loop catches
\* an exception: one raised by the handler or by the sampler ends the consumer
\* thread, and a handler that never returns holds it for good.
run_on_new_thread_body ==
    /\ srvQ # <<>>
    /\ delivered' = Append(delivered, Head(srvQ))
    /\ srvQ' = Tail(srvQ)
    /\ \E outcome \in {"returns", "raises", "never_returns"} :
         LET sampled == outcome = "returns" /\ logLevel = DEBUG
             o == latency_sample(dataType, stamps[Head(srvQ).id], tail)
             dies == outcome # "returns" \/ (sampled /\ o.raised # "none")
         IN
         /\ consumers' = IF dies THEN consumers - 1 ELSE consumers
         /\ failed' = IF outcome = "raises" THEN failed \cup {Head(srvQ).id} ELSE failed
         /\ blocked' = IF outcome = "never_returns" THEN blocked + 1 ELSE blocked
         /\ tail' = IF sampled THEN o.s ELSE tail
         /\ samplerRaised' = IF sampled /\ o.raised # "none"
                               THEN samplerRaised \cup {Head(srvQ).id}
                               ELSE samplerRaised
    /\ lastEvent' = "consume"
    /\ UNCHANGED <<supVars, process, alive, orphans, running, chanVars, nframes,
                   budget, err, nclose, closedOpen, runs, attempts, onCloseCalls,
                   subVars, modeVars, arrived, errorCalls, authVars, ctorVars,
                   logLevel, dataType, stamps, head, closePc, clients, payload>>

\* One turn of the consumer loop, "while self.running" included, with a
\* non-empty queue.  With one consumer and no close() in between the turn is
\* one step.
Consume ==
    /\ kind = MDF
    /\ running
    /\ consumers > 0
    /\ inTurn = 0
    /\ inTurn' = inTurn
    /\ run_on_new_thread_body

\* The consumer loop statement by statement, for what close() does in
\* between.  A loop at "while self.running" reads the flag as True.
ConsumerCheck ==
    /\ kind = MDF
    /\ running
    /\ inTurn < consumers
    /\ inTurn' = inTurn + 1
    /\ lastEvent' = "consumer_check"
    /\ UNCHANGED <<supVars, lifeVars, chanVars, inVars, budget, err, nclose,
                   closedOpen, runs, attempts, onCloseCalls, subVars, modeVars,
                   frameVars, authVars, ctorVars, sampVars, closePc, clients, payload>>

\* It finds the queue non-empty and runs the body of the loop.
ConsumerTake ==
    /\ kind = MDF
    /\ inTurn > 0
    /\ inTurn' = inTurn - 1
    /\ run_on_new_thread_body

\* It finds the queue empty, sleeps 10 ms and is back at the top of the loop.
ConsumerSleep ==
    /\ kind = MDF
    /\ inTurn > 0
    /\ srvQ = <<>>
    /\ inTurn' = inTurn - 1
    /\ lastEvent' = "consumer_sleep"
    /\ UNCHANGED <<supVars, lifeVars, chanVars, inVars, budget, err, nclose,
                   closedOpen, runs, attempts, onCloseCalls, subVars, modeVars,
                   frameVars, authVars, ctorVars, sampVars, closePc, clients, payload>>

\* --------------------------------------------- two instances in one process

ClientIds == {1, 2}

\* The attributes of a new instance: class, self.url, the retry counter at 0,
\* no connection yet, and the reconnect policy.
NewClient(k, u, rec) ==
    [cls |-> k, url |-> u, retries |-> 0, conn |-> "none", reconnect |-> rec]

\* Constructor calls that succeed, for trades and for books.
PairArgs ==
    {[exchange |-> B3, data_type |-> d, stream_type |-> REALTIME,
      data_subtype |-> STOCKS, interned |-> TRUE] : d \in {TRADES, BOOKS}}

\* "self.__nro_reconnect_retries = r" and the state of the connection of that
\* instance: the name is an attribute of the instance self, so the write goes
\* to that instance and to no other.
set_class_attribute(store, self, r, c) ==
    [j \in DOMAIN store |->
        [store[j] EXCEPT !.retries = r, !.conn = IF j = self THEN c ELSE @]]

set_instance_state(store, self, r, c) ==
    [store EXCEPT ![self].retries = r, ![self].conn = c]

\* A step of the instance self; the single instance of the other
\* specifications is not part of it.
PairStep(self, r, c, ev) ==
    /\ clients' = set_instance_state(clients, self, r, c)
    /\ lastEvent' = ev
    /\ UNCHANGED <<supVars, lifeVars, chanVars, inVars, budget, err, nclose,
                   closedOpen, runs, attempts, onCloseCalls, subVars, modeVars,
                   frameVars, authVars, ctorVars, sampVars, stepVars, payload>>

\* run() on an instance with no live connection (the worker of a
\* MarketDataFeed starts with a counter of 0).
PairRun(self) ==
    LET c == clients[self] IN
    /\ c.conn \in {"none", "done", "killed"}
    /\ PairStep(self, IF c.cls = MDF THEN 0 ELSE c.retries, "connecting", "run")

\* The open callback of the instance.
PairOpen(self) ==
    LET c == clients[self] IN
    /\ c.conn = "connecting"
    /\ \E raises \in BOOLEAN :
         PairStep(self, on_open(c.cls, c.retries, raises), "open", "open")

\* The close callback of the instance, after a failed handshake, a drop or
\* the teardown that follows close(): the hook, then the reconnect decision.
PairClosure(self) ==
    LET c == clients[self] IN
    /\ c.conn \in {"connecting", "open", "teardown"}
    /\ \E raises \in BOOLEAN :
         LET o == on_close(c.cls, c.retries, c.reconnect, raises) IN
         PairStep(self, o.retries, IF o.again THEN "connecting" ELSE "done", "closure")

\* close() on the instance: the worker of a MarketDataFeed is terminated, the
\* WebSocketApp of a thread client is closed and will tear down.
PairClose(self) ==
    LET c == clients[self] IN
    /\ c.conn \in {"connecting", "open"}
    /\ PairStep(self, c.retries, IF c.cls = MDF THEN "killed" ELSE "teardown", "close")

\* ------------------------------------------------------------ specification

Next ==
    \/ Run
    \/ FeedRun
    \/ CloseBeforeRun
    \/ Close
    \/ FeedClose
    \/ OnOpen
    \/ OnHandshakeFail
    \/ OnDrop
    \/ OnTeardown
    \/ WaitLoopExit
    \/ ConsumerExit

Spec == Init /\ [][Next]_vars

\* MarketDataFeed with run() called once.  The two queues do not interact, so
\* the worker's supervisor is composed with each of them in turn: with the
\* command channel (client-to-server) and with the inbound dispatch
\* (server-to-client).
InitFeed ==
    InitCommon /\ InitConstructed /\ instruments = <<>> /\ kind = MDF /\ budget = MaxDrops

FirstRun == ~process /\ FeedRun

NextFeedCommands ==
    \/ FirstRun
    \/ FeedClose
    \/ OnOpen
    \/ OnHandshakeFail
    \/ OnDrop
    \/ WaitLoopExit
    \/ Submit
    \/ DrainGet
    \/ DrainSend

SpecFeedCommands == InitFeed /\ [][NextFeedCommands]_vars

NextFeedFrames ==
    \/ FirstRun
    \/ FeedClose
    \/ OnOpen
    \/ OnHandshakeFail
    \/ OnDrop
    \/ WaitLoopExit
    \/ ConsumerExit
    \/ OnMessage
    \/ Consume

SpecFeedFrames == InitFeed /\ [][NextFeedFrames]_vars

\* Commands of all four clients across drops and reconnects: what the open
\* callback writes by itself and what the application asks for.
InitSubscribe ==
    /\ InitCommon
    /\ InitConstructed
    /\ instruments \in (IF kind \in {MDWS, WSC} THEN InstrumentLists ELSE {<<>>})
    /\ budget = MaxDrops

NextSubscribe ==
    \/ Run
    \/ FirstRun
    \/ OnOpen
    \/ OnHandshakeFail
    \/ OnDrop
    \/ WaitLoopExit
    \/ Subscribe
    \/ Submit
    \/ DrainGet
    \/ DrainSend

SpecSubscribe == InitSubscribe /\ [][NextSubscribe]_vars

\* Inbound frames of the thread clients across drops and reconnects.
InitClientFrames ==
    /\ InitCommon
    /\ InitConstructed
    /\ kind # MDF
    /\ instruments = <<>>
    /\ budget = MaxDrops

NextClientFrames ==
    \/ Run
    \/ OnOpen
    \/ OnHandshakeFail
    \/ OnDrop
    \/ WaitLoopExit
    \/ ClientOnMessage
    \/ HandlerThread

SpecClientFrames == InitClientFrames /\ [][NextClientFrames]_vars

\* The connection attempts of all four clients while time passes and tokens
\* expire.
InitToken ==
    /\ InitCommon
    /\ InitConstructed
    /\ instruments = <<>>
    /\ budget = MaxDrops

NextToken ==
    \/ Run
    \/ FirstRun
    \/ OnOpen
    \/ OnHandshakeFail
    \/ OnDrop
    \/ WaitLoopExit
    \/ Tick
    \/ ServerChange

SpecToken == InitToken /\ [][NextToken]_vars

\* The Authenticator of one instance, read by the application while time
\* passes and the endpoint's answers change.
InitAuth ==
    /\ InitCommon
    /\ InitConstructed
    /\ kind = MDWS
    /\ instruments = <<>>
    /\ budget = 0

NextAuth ==
    \/ Tick
    \/ ServerChange
    \/ TokenAccess

SpecAuth == InitAuth /\ [][NextAuth]_vars

\* The constructor calls of MarketDataWebSocketClient and MarketDataFeed.
InitResolve ==
    /\ InitCommon
    /\ args \in ArgSpace
    /\ kind = args.cls
    /\ made = Pending
    /\ logLevel = INFO
    /\ dataType = args.data_type
    /\ clients = <<>>
    /\ server \in AuthResponses
    /\ token = NoToken
    /\ issued = 0
    /\ authCalls = 0
    /\ instruments = <<>>
    /\ budget = 0

NextResolve ==
    \/ ConstructClient
    \/ ConstructFeed

SpecResolve == InitResolve /\ [][NextResolve]_vars

\* MarketDataFeed at either log level, for trades and for books: the frames of
\* one connection and their latency samples.
InitSampler ==
    /\ InitCommon
    /\ InitAuthenticated
    /\ kind = MDF
    /\ logLevel \in {DEBUG, INFO}
    /\ dataType \in {TRADES, BOOKS}
    /\ clients = <<>>
    /\ instruments = <<>>
    /\ budget = 0

NextSampler ==
    \/ FirstRun
    \/ OnOpen
    \/ OnMessage
    \/ Consume

SpecSampler == InitSampler /\ [][NextSampler]_vars

\* MarketDataFeed with run() called once and close() called from the thread
\* that called run(), while the worker receives frames and the consumer loop
\* takes them: close() and the consumer loop statement by statement.
SequentialRun == closePc = "idle" /\ FirstRun

NextFeedClose ==
    \/ SequentialRun
    \/ OnOpen
    \/ OnMessage
    \/ ConsumerCheck
    \/ ConsumerTake
    \/ ConsumerSleep
    \/ ConsumerExit
    \/ FeedCloseFlag
    \/ FeedCloseTerminate

SpecFeedClose == InitFeed /\ [][NextFeedClose]_vars

\* Two clients constructed in one process, each of them run, opened, dropped,
\* reconnected and closed in any order.
InitPair ==
    /\ InitCommon
    /\ InitAuthenticated
    /\ kind = MDWS
    /\ logLevel = INFO
    /\ dataType = TRADES
    /\ instruments = <<>>
    /\ budget = 0
    /\ clients \in [ClientIds ->
          {NewClient(MDWS, MarketDataWebSocketClient_init(a, OkResponse).url, rec) :
              a \in PairArgs, rec \in BOOLEAN}
          \cup
          {NewClient(MDF, MarketDataFeed_init(a, OkResponse).url, rec) :
              a \in PairArgs, rec \in BOOLEAN}]

NextPair ==
    \/ \E self \in ClientIds : PairRun(self)
    \/ \E self \in ClientIds : PairOpen(self)
    \/ \E self \in ClientIds : PairClosure(self)
    \/ \E self \in ClientIds : PairClose(self)

SpecPair == InitPair /\ [][NextPair]_vars

\* MarketDataFeed for trades and for books: subscribe() calls before and
\* after run() and the open.
InitFeedSubscribe ==
    /\ InitCommon
    /\ InitAuthenticated
    /\ kind = MDF
    /\ logLevel = INFO
    /\ dataType \in {TRADES, BOOKS}
    /\ clients = <<>>
    /\ instruments = <<>>
    /\ budget = 0

NextFeedSubscribe ==
    \/ FirstRun
    \/ OnOpen
    \/ FeedSubscribe

SpecFeedSubscribe == InitFeedSubscribe /\ [][NextFeedSubscribe]_vars

\* One run() call of a client whose run() waits for the connection, with a
\* transport that answers every handshake (it opens or it fails) and keeps an
\* open connection open, and with threads that are scheduled: a wait loop
\* that can see the socket connected does see it.
InitConnect ==
    /\ InitCommon
    /\ InitConstructed
    /\ HasWaitLoop(kind)
    /\ instruments = <<>>
    /\ budget = MaxClosures

OnlyRun == runs = 0 /\ (Run \/ FeedRun)

NextConnect ==
    \/ OnlyRun
    \/ OnOpen
    \/ OnHandshakeFail
    \/ WaitLoopExit

SpecConnect ==
    /\ InitConnect
    /\ [][NextConnect]_vars
    /\ WF_vars(OnOpen \/ OnHandshakeFail)
    /\ WF_vars(WaitLoopExit)

\* Commands of the three thread clients before and after run(), across drops
\* and reconnects.
InitSend ==
    /\ InitCommon
    /\ InitConstructed
    /\ kind # MDF
    /\ instruments \in (IF kind \in {MDWS, WSC} THEN InstrumentLists ELSE {<<>>})
    /\ budget = MaxDrops

NextSend ==
    \/ Run
    \/ OnOpen
    \/ OnHandshakeFail
    \/ OnDrop
    \/ Subscribe
    \/ GetLatestNews

SpecSend == InitSend /\ [][NextSend]_vars

\* One constructor call of each of the three classes that resolve an endpoint,
\* with an authenticate endpoint that answers in any of its ways.
InitConstruct ==
    /\ InitCommon
    /\ args \in ArgSpace \cup NewsArgSpace
    /\ kind = args.cls
    /\ made = Pending
    /\ logLevel = INFO
    /\ dataType = (IF args.cls = HFN THEN TRADES ELSE args.data_type)
    /\ clients = <<>>
    /\ server \in AuthResponses
    /\ token = NoToken
    /\ issued = 0
    /\ authCalls = 0
    /\ instruments = <<>>
    /\ budget = 0

NextConstruct ==
    \/ ConstructClient
    \/ ConstructFeed
    \/ ConstructNews

SpecConstruct == InitConstruct /\ [][NextConstruct]_vars

\* ------------------------------------------------------------------- claims

\* The transport is released: closed by close(), torn down for good, or killed
\* with its worker.
ClosedStates == {"teardown", "done", "killed"}

\* C1: the retry counter stays within 0..MAX_WS_RECONNECT_RETRIES and at most
\* MAX_WS_RECONNECT_RETRIES reconnect attempts are started after a successful
\* open (or after run()) before the next successful open, for every client kind.
C1_RetryBound ==
    /\ retries \in 0..MAX_WS_RECONNECT_RETRIES
    /\ attempts \in 0..MAX_WS_RECONNECT_RETRIES

\* C1 witness: all five attempts were made and failed, the cap stopped the sixth.
C1_Witness ==
    /\ retries = MAX_WS_RECONNECT_RETRIES
    /\ attempts = MAX_WS_RECONNECT_RETRIES
    /\ thr = "done"
    /\ lastEvent = "fail"

\* C2: when the open callback of a connection has finished the retry counter is
\* 0 whatever it was before, and only an open callback sets a non-zero counter
\* back to 0 (a new worker process starts with its own counter of 0).
C2_OpenResetsCounter ==
    [][ /\ (lastEvent' = "open" => retries' = 0)
        /\ ((retries # 0 /\ retries' = 0 /\ lastEvent' # "run") => lastEvent' = "open")
      ]_vars

\* C3: no command submitted to MarketDataFeed while the transport was not
\* connected is discarded: when the transport is open (again), every such
\* command is still queued or has been written.
C3_OfflineCommandsKept ==
    thr = "open" => offline \cap lost = {}

\* C4: MarketDataFeed writes commands to the transport in submission order.
C4_WrittenInSubmissionOrder ==
    \A i, j \in 1..Len(written) : i < j => written[i] < written[j]

\* C5: with one consumer loop, the user on_message handler of MarketDataFeed
\* gets the frames in the order the worker received them, none of them twice,
\* also when they arrived on different connections.
C5_DeliveredInArrivalOrder ==
    \A i, j \in 1..Len(delivered) : i < j => delivered[i].id < delivered[j].id

\* C5 witness: a frame of the first connection and then a frame received after
\* a reconnect were both handed to the handler.
C5_Witness ==
    \E i, j \in 1..Len(delivered) :
        /\ i < j
        /\ delivered[i].conn = 1
        /\ delivered[j].conn = 2

\* C6: once close() was called on the open client, the transport stays released:
\* no step (other than a new run()) brings a connecting or open transport back.
C6_ClosedStaysClosed ==
    [][ (closedOpen /\ closedOpen') => thr' \in ClosedStates ]_vars

\* C7: close() leaves the client Closed, and a second close() after a close()
\* on the open client raises nothing, changes nothing and leaves it Closed.
C7_CloseIdempotent ==
    [][ /\ (nclose' = nclose + 1 /\ closedOpen') => thr' \in ClosedStates
        /\ (closedOpen /\ nclose = 1 /\ nclose' = 2) =>
               /\ err' = "none"
               /\ thr' \in ClosedStates
               /\ UNCHANGED <<supVars, lifeVars>>
      ]_vars

\* C8: close() on an instance on which run() was never called raises no error
\* and leaves the instance as constructed, for every client kind.
C8_CloseBeforeRunSafe ==
    (runs = 0 /\ lastEvent = "close") =>
        /\ err = "none"
        /\ thr = "none" /\ retries = 0 /\ ~wsSet
        /\ ~process /\ ~running /\ consumers = 0

\* C9: when MarketDataFeed.close() has returned, no worker process started by
\* the instance is alive, whatever run() and close() calls came before.  (The
\* claim's second half, that every loop then exits, is a liveness property of
\* the same states.)
C9_NoWorkerAfterClose ==
    (kind = MDF /\ lastEvent = "close") => (~alive /\ orphans = 0)

C11_NoReconnectWhenDisabled ==
    [][ ~reconnect =>
          /\ attempts' = 0
          /\ retries' = 0
          /\ (lastEvent' \in {"fail", "drop", "teardown"} => thr' = "done")
          /\ ((thr = "done" /\ lastEvent' # "run") => thr' \in {"done", "killed"})
      ]_vars

\* C11 witness: reconnect is disabled, the open transport dropped and the
\* client is closed with its counter at 0.
C11_Witness ==
    /\ ~reconnect
    /\ lastEvent = "drop"
    /\ thr = "done"
    /\ retries = 0

Frames(seq) == [i \in 1..Len(seq) |-> [id |-> seq[i].id, conn |-> seq[i].conn]]
Decodable(f) == f.dec
Occurrences(seq, x) == Cardinality({i \in 1..Len(seq) : seq[i] = x})

\* C13: whatever the consumer loop and the user handler do (also when the
\* handler never returns), every decodable frame the transport delivered to
\* the MarketDataFeed worker has been put on the server-to-client queue in
\* arrival order: the decodable arrivals are the frames handed to the
\* handler followed by the frames still queued.
C13_SlowHandlerDoesNotStallWorker ==
    Frames(SelectSeq(arrived, Decodable)) = delivered \o srvQ

\* C13 witness: the handler never returned on a frame, the consumer loop is
\* held, and frames that arrived afterwards are on the queue.
C13_Witness ==
    /\ blocked > 0
    /\ consumers = 0
    /\ lastEvent = "frame"
    /\ thr = "open"
    /\ Len(srvQ) >= 2

\* C14: in a run of MarketDataWebSocketClient with spawn_thread=False, a
\* frame leaves the connection open, every frame that arrived is passed to
\* the handler (or its thread is about to), and each frame on which the
\* handler raised was reported to the on_error hook exactly once.
C14_InlineHandlerErrorsReported ==
    (kind = MDWS /\ runs >= 1 /\ ~spawnArg) =>
        /\ (lastEvent = "frame" => thr = "open")
        /\ \A id \in 1..nframes :
              \/ \E i \in 1..Len(delivered) : delivered[i].id = id
              \/ \E f \in handlerThreads : f.id = id
        /\ \A id \in failed : Occurrences(errorCalls, id) = 1

C16_FreshTokenOnEveryAttempt ==
    [][ (thr' = "connecting" /\ lastEvent' \in {"run", "fail", "drop", "teardown"}) =>
            hdr'.exp > now'
      ]_vars

\* C17: a read of Authenticator.token whose cached token has exp <= now makes
\* exactly one authenticate request and, when that succeeds, returns and
\* caches the token just issued; a read whose cached token has exp > now
\* makes no request and returns the cached token.
C17_TokenRefreshedIffExpired ==
    [][ lastEvent' = "token" =>
          IF now >= token.exp
            THEN /\ authCalls' = authCalls + 1
                 /\ err' = "none" =>
                       /\ got' = [id |-> issued + 1, exp |-> now + TokenLife]
                       /\ got' # token
                       /\ token' = got'
            ELSE /\ authCalls' = authCalls
                 /\ err' = "none"
                 /\ got' = token
                 /\ token' = token
      ]_vars

\* C17 witness: a read at the very second the cached token expired fetched
\* and returned a new token.
C17_Witness ==
    /\ lastEvent = "token"
    /\ err = "none"
    /\ got.id = 2
    /\ got.exp = now + TokenLife
    /\ now = TokenLife
    /\ authCalls = 2

\* C18: a read of Authenticator.token that has to fetch a token raises
\* BadResponse both when the endpoint answers with another status than 200
\* (and a JSON error body) and when it answers 200 without a token.
C18_AuthFailuresRaiseBadResponse ==
    [][ ( /\ lastEvent' = "token"
          /\ authCalls' # authCalls
          /\ server.body # "not_json"
          /\ (server.status # 200 \/ server.body = "no_token") ) =>
            err' = "BadResponse"
      ]_vars

\* The four-key tuple of a constructor call, and the parameters whose value is
\* not in the supported set of that parameter.
Tuple(a) == <<a.exchange, a.data_type, a.stream_type, a.data_subtype>>
Unsupported(a) ==
    {d \in Dimensions :
        \/ d = "stream_type" /\ a.stream_type \notin VALID_STREAM_TYPES
        \/ d = "exchange" /\ a.exchange \notin VALID_EXCHANGES
        \/ d = "data_type" /\ a.data_type \notin VALID_MARKET_DATA_TYPES
        \/ d = "data_subtype" /\ a.data_subtype \notin VALID_MARKET_DATA_SUBTYPES}
ConfigurationErrors == {"FeedError", "WSTypeError", "Exception"}

C20_ErrorNamesTheDimension ==
    ( /\ made.done
      /\ Authenticator_init(server) = "none"
      /\ args.data_subtype # None
      /\ Cardinality(Unsupported(args)) = 1 ) =>
        /\ made.err # "none"
        /\ made.names = Unsupported(args)

\* The first three values of a constructor call are supported together: the
\* table has an entry for them with some subtype.
SupportedTriple(a) ==
    \E sub \in VALID_MARKET_DATA_SUBTYPES :
        <<a.exchange, a.data_type, a.stream_type, sub>> \in DOMAIN market_data_socket_urls

\* C21: a MarketDataFeed constructor call with data_subtype omitted (None),
\* working credentials and an exchange, data type and stream type the table
\* supports yields an instance with an endpoint url and raises nothing.
C21_FeedSubtypeOptional ==
    ( /\ made.done
      /\ args.cls = MDF
      /\ args.data_subtype = None
      /\ Authenticator_init(server) = "none"
      /\ SupportedTriple(args) ) =>
        /\ made.err = "none"
        /\ made.url # ""

\* C22: when the open callback of a MarketDataWebSocketClient or
\* WebSocketClient has run, the new connection carries exactly one command
\* written by the client, the subscribe of the constructor's instruments, when
\* that list is not empty, and no command at all when it is empty.
C22_SubscribeOnEachOpen ==
    (kind \in {MDWS, WSC} /\ lastEvent = "open") =>
        wire = IF instruments # <<>> THEN <<ClientCommand(instruments)>> ELSE <<>>

\* C23: at DEBUG level, a decodable frame whose timestamp field is missing or
\* malformed gives no sample and no exception: in the worker's read callback
\* the count and average stay as they are, on_error is not called and the
\* connection stays open; in the consumer loop (the handler having returned)
\* the count and average stay as they are and the loop goes on.
C23_SamplerNeverRaises ==
    [][ /\ ( /\ lastEvent' = "frame"
             /\ logLevel = DEBUG
             /\ arrived'[nframes'].dec
             /\ stamps'[nframes'] \notin WellFormed ) =>
               /\ head' = head
               /\ errorCalls' = errorCalls
               /\ thr' = "open"
               /\ srvQ' = Append(srvQ, [id |-> nframes', conn |-> epoch])
        /\ ( /\ lastEvent' = "consume"
             /\ logLevel = DEBUG
             /\ failed' = failed
             /\ blocked' = blocked
             /\ stamps[Head(srvQ).id] \notin WellFormed ) =>
               /\ tail' = tail
               /\ samplerRaised' = samplerRaised
               /\ consumers' = consumers
      ]_vars

\* C24: close() clears the running flag only when the worker process has been
\* terminated and joined: in the step that clears the flag of a running
\* MarketDataFeed no worker is alive.
C24_TerminateBeforeFlag ==
    [][ (kind = MDF /\ running /\ ~running') => ~alive ]_vars

\* C24 as amended: close() clears the running flag first, leaving the worker
\* as it is, and terminates and joins the worker afterwards: in the step that
\* ends the worker the flag is already cleared, and stays so.
C24_FlagBeforeTerminate ==
    [][ /\ (lastEvent' = "close_flag") =>
               /\ ~running'
               /\ UNCHANGED <<process, alive, thr>>
        /\ (lastEvent' = "close" /\ alive /\ ~alive') =>
               /\ ~running
               /\ ~running'
      ]_vars

\* C24 witness: close() has returned after terminating a worker whose
\* transport was open, and the flag is cleared.
C24_Witness ==
    /\ kind = MDF
    /\ lastEvent = "close"
    /\ thr = "killed"
    /\ closedOpen
    /\ ~alive
    /\ ~running

\* C25: once close() has returned (and run() was not called again) the
\* consumer loop hands no further frame to the user on_message handler.
C25_NoHandlerAfterClose ==
    [][ (kind = MDF /\ nclose > 0 /\ closePc = "idle" /\ ~running) =>
            delivered' = delivered
      ]_vars

\* C26: a command leaves the client-to-server queue of MarketDataFeed only
\* while the transport is connected: no step taken while it is not (after the
\* retry cap is exhausted included) makes the queue shorter.
C26_DrainOnlyWhileConnected ==
    [][ (kind = MDF /\ Len(cmdQ') < Len(cmdQ)) => thr = "open" ]_vars

\* C27: a MarketDataFeed has at most one command-drain loop and at most one
\* consumer loop at any time.
C27_OneConsumerPerQueue ==
    kind = MDF => (drainLoops <= 1 /\ consumers + blocked <= 1)

\* C28: the user on_close hook is invoked once in every step that closes a
\* live transport (a failed handshake, a drop, the teardown after close(), the
\* end of the worker in close()), reconnect attempt or not, and in no other
\* step.
C28_EveryClosureObserved ==
    [][ ( /\ thr \in {"connecting", "open", "teardown"}
          /\ \/ thr' \in {"done", "killed"}
             \/ lastEvent' \in {"fail", "drop", "teardown"} )
        <=> onCloseCalls' # onCloseCalls
      ]_vars

\* C29: with two clients in one process, a step that changes the retry
\* counter or the connection state of one client leaves the retry counter, the
\* url and the connection state of the other as they were, and no step changes
\* a url.
C29_InstanceScopedState ==
    [][ /\ \A i \in ClientIds :
              clients'[i] # clients[i] =>
                  \A j \in ClientIds \ {i} : clients'[j] = clients[j]
        /\ \A i \in ClientIds : clients'[i].url = clients[i].url
      ]_vars

\* C29 witness: client 1 has used up two reconnect attempts and is connecting
\* again while client 2, with another url, is open with its counter at 0.
C29_Witness ==
    /\ clients # <<>>
    /\ clients[1].retries = 2
    /\ clients[1].conn = "connecting"
    /\ clients[2].retries = 0
    /\ clients[2].conn = "open"
    /\ clients[1].url # clients[2].url

\* C30: a call MarketDataFeed.subscribe(list, n) puts exactly one command on
\* the client-to-server queue; its action is subscribe and its params is the
\* dict of the instruments (as a list) and n when the data type is books and
\* n was given, and the instruments alone (as a list, no n) otherwise.
C30_SubscribeParams ==
    [][ lastEvent' = "feed_subscribe" =>
          LET c == payload'[nsub']
              list == [py |-> "list", items |-> c.call.list_instruments.items]
          IN
          /\ cmdQ' = Append(cmdQ, nsub')
          /\ DOMAIN payload' = DOMAIN payload \cup {nsub'}
          /\ c.queued.action = "subscribe"
          /\ c.queued.params =
                IF dataType = BOOKS /\ c.call.n # NoDepth
                  THEN [shape |-> "dict", tickers |-> list, n |-> c.call.n.value]
                  ELSE [shape |-> "list", tickers |-> list, n |-> 0]
      ]_vars

\* C30 witness: on a books feed subscribe(list, 0) queued the dict with n = 0.
C30_Witness ==
    /\ lastEvent = "feed_subscribe"
    /\ dataType = BOOKS
    /\ payload[nsub].call.n = [given |-> TRUE, value |-> 0]
    /\ payload[nsub].queued.params.shape = "dict"
    /\ payload[nsub].queued.params.n = 0
    /\ cmdQ[Len(cmdQ)] = nsub

\* C31: an exception of the user on_open or on_close hook changes nothing in
\* the supervisor: every open callback leaves the retry counter at 0, and
\* every close callback that runs with reconnect enabled and a counter below
\* the cap counts one attempt and starts a new connection.
C31_HookExceptionsIgnored ==
    [][ /\ (lastEvent' = "open" => retries' = 0)
        /\ ( /\ lastEvent' \in {"fail", "drop", "teardown"}
             /\ reconnect
             /\ retries < MAX_WS_RECONNECT_RETRIES ) =>
               /\ retries' = retries + 1
               /\ thr' = "connecting"
      ]_vars

\* C32: a frame on which the user on_message handler of MarketDataFeed raises
\* leaves the local consumer loop running: the loop that took the frame is
\* still there for the frames that follow, as long as close() is not called.
C32_HandlerRaiseKeepsConsumer ==
    [][ ( /\ lastEvent' = "consume"
          /\ delivered'[Len(delivered')].id \in failed' ) =>
            /\ consumers' = consumers
            /\ running'
      ]_vars

\* C33: every connection of a run of MarketDataWebSocketClient delivers frames
\* in the mode the run() call asked for with spawn_thread, the connections
\* opened by the automatic reconnect included.
C33_DeliveryModeKept ==
    (kind = MDWS /\ runs >= 1 /\ thr \in {"connecting", "open"}) => spawn = spawnArg

\* C34: every connect-wait loop ends: the one of each run() call of
\* MarketDataWebSocketClient and HFNWebSocketClient (the call returns) and
\* the one of each run_forever_new_thread of the MarketDataFeed worker, also
\* when every handshake fails and the retry cap is reached.
C34_WaitLoopsExit ==
    (waitLoops > 0) ~> (waitLoops = 0)

\* C35: in the three thread clients a command issued while the transport is
\* not connected raises to the caller and is not written; and whatever is
\* written to the transport is either what the open callback sends by itself
\* or the one command of a call made while the transport is connected, so no
\* command of a failed call is written later.
C35_NoSendWhileDisconnected ==
    [][ /\ (lastEvent' \in {"subscribe", "latest_news"} /\ thr # "open") =>
               /\ err' # "none"
               /\ wire' = wire
        /\ (wire' # wire) =>
               \/ /\ lastEvent' = "open"
                  /\ \A i \in 1..Len(wire') : wire'[i].by = "client"
               \/ /\ lastEvent' \in {"subscribe", "latest_news"}
                  /\ thr = "open"
                  /\ err' = "none"
                  /\ Len(wire') = Len(wire) + 1
                  /\ SubSeq(wire', 1, Len(wire)) = wire
      ]_vars

\* The last call of the application was a command that failed on a closed
\* transport, and the automatic reconnect has opened a new connection since.
C35_Witness ==
    /\ kind \in {MDWS, HFN, WSC}
    /\ err = "WebSocketConnectionClosedException"
    /\ lastEvent = "open"
    /\ epoch = 2
    /\ \A i \in 1..Len(wire) : wire[i].by = "client"

\* C36: a MarketDataWebSocketClient built without data_subtype (and with a
\* supported stream type, exchange and data type, the authentication
\* succeeding) is resolved with subtype stocks when the exchange is b3 and the
\* data type is not indices, and with subtype all otherwise: its url is the
\* table's entry for that subtype, and the lookup fails when there is none.
C36_DefaultSubtype ==
    ( /\ made.done
      /\ args.cls = MDWS
      /\ args.data_subtype = None
      /\ Authenticator_init(server) = "none"
      /\ args.stream_type \in VALID_STREAM_TYPES
      /\ args.exchange \in VALID_EXCHANGES
      /\ args.data_type \in VALID_MARKET_DATA_TYPES ) =>
        LET sub == IF args.exchange = B3 /\ args.data_type # INDICES THEN STOCKS ELSE ALL
            key == <<args.exchange, args.data_type, args.stream_type, sub>>
        IN  made = IF key \in DOMAIN market_data_socket_urls
                     THEN Constructed(market_data_socket_urls[key])
                     ELSE Failed("WSTypeError", Dimensions, TRUE)

\* A constructor call one of whose arguments has an unsupported value (an
\* omitted data_subtype is not one).
InvalidConfiguration(a) ==
    IF a.cls = HFN
      THEN a.stream_type \notin VALID_STREAM_TYPES \/ a.country \notin VALID_COUNTRIES
      ELSE \/ a.stream_type \notin VALID_STREAM_TYPES
           \/ a.exchange \notin VALID_EXCHANGES
           \/ a.data_type \notin VALID_MARKET_DATA_TYPES
           \/ a.data_subtype \notin VALID_MARKET_DATA_SUBTYPES \cup {None}

\* C37: a constructor call of MarketDataFeed, MarketDataWebSocketClient or
\* HFNWebSocketClient with an unsupported value fails with the configuration
\* error, and the authenticate endpoint has not been called.
C37_ValidationBeforeAuthentication ==
    (made.done /\ InvalidConfiguration(args)) =>
        /\ made.err \in ConfigurationErrors
        /\ ~made.authCalled
        /\ authCalls = 0

====
